---- MODULE Spec2Model ----
(***************************************************************************)
(* A model of the VLMC timeline rendering engine: the video clip workflow  *)
(* (a bounded pool of frame buffers shared by the decoder callbacks and    *)
(* the consumer) and the track workflow (the per-frame scheduler over the  *)
(* clips placed on one video track).                                       *)
(***************************************************************************)
EXTENDS Integers, Sequences, FiniteSets, Bags, TLC

\* ------------------------------------------------------------------ bounds
MaxClips == 2        \* clip workflow objects that can exist
MaxStart == 2        \* greatest start frame a clip is placed at
MaxLen == 3          \* greatest ClipHelper::length() of a clip added to a track
MaxClipLen == 2      \* greatest ClipHelper::length() of a clip that is rendered
MaxBegin == 1        \* the non-zero ClipHelper::begin() (trim begin, in frames)
MaxFrame == 4        \* greatest frame requested from the track
MaxGets == 2         \* Get-mode StackedBuffers a free-running consumer keeps
MaxThreads == 2      \* threads calling into one TrackWorkflow
NbBuffers == 2       \* VideoClipWorkflow::nbBuffers (set in the header)
NbFrameBeforePreload == 2 \* TrackWorkflow::nbFrameBeforePreload (header)
Fps == 30            \* Media::fps() of the clips' media

ClipIds == 1..MaxClips
Starts == 0..MaxStart
Lens == 1..MaxLen
ClipLens == 1..MaxClipLen
Begins == {0, MaxBegin}
Frames == 0..MaxFrame
BufferIds == 1..NbBuffers

VARIABLES
    m_clips,              \* TrackWorkflow::m_clips : start frame -> clip id
    cws,                  \* the ClipWorkflow objects, by id
    m_length,             \* TrackWorkflow::m_length
    m_lastFrame,          \* TrackWorkflow::m_lastFrame
    m_renderOneFrame,     \* TrackWorkflow::m_renderOneFrame
    m_videoStackedBuffer, \* TrackWorkflow::m_videoStackedBuffer
    outstanding,          \* bag of StackedBuffers handed out, not yet released
    consumer,             \* position of a consumer inside VideoClipWorkflow::getOutput
    asked,                \* renderOneFrame() was called since the last getOutput
    moved,                \* clips moved by moveClip and not scanned as active since
    last,                 \* record of the last operation performed
    m_clipsLock,          \* TrackWorkflow::m_clipsLock : the writer and the readers holding it
    callers,              \* the threads inside a TrackWorkflow call, and where they are
    paths                 \* the threads inside a path that takes a clip's state lock

vars == <<m_clips, cws, m_length, m_lastFrame, m_renderOneFrame,
          m_videoStackedBuffer, outstanding, consumer, moved, asked, last,
          m_clipsLock, callers, paths>>

\* QReadWriteLock: no thread holds m_clipsLock, no thread is inside a call.
Threads == 1..MaxThreads
IdleCaller == "idle"
Unlocked == [writer |-> 0, readers |-> {}]
\* A thread outside the paths that take a clip's state lock: `held` counts its
\* lockForRead() calls on the state lock not yet matched by an unlock(),
\* `render` tells whether it holds the render lock, `todo` lists the
\* ClipWorkflow methods the path has still to call.
IdlePath == [fn |-> "none", pc |-> "idle", held |-> 0, todo |-> <<>>, render |-> FALSE]
NoCaller ==
    /\ m_clipsLock = Unlocked
    /\ callers = [t \in Threads |-> IdleCaller]
    /\ paths = [t \in Threads |-> IdlePath]
\* A call that runs from its first line to its last with no other call of the
\* track interleaved.
Alone == UNCHANGED <<m_clipsLock, callers, paths>>

\* ------------------------------------------------------ buffer containers
\* The queue type of m_availableBuffers / m_computedBuffers.
PoolPushBack(q, b) == Append(q, b)
PoolHead(q) == Head(q)
PoolPopped(q) == Tail(q)

RECURSIVE SeqCat(_, _)
SeqCat(a, b) == IF b = <<>> THEN a ELSE SeqCat(Append(a, Head(b)), Tail(b))

\* ---------------------------------------------------------- StackedBuffer
NULL == [cw |-> 0, buf |-> 0, pool |-> FALSE]
StackedBuffer(id, b, mustBeReleased) == [cw |-> id, buf |-> b, pool |-> mustBeReleased]

\* ------------------------------------------------------ VideoClipWorkflow
States == {"Stopped", "Initializing", "Ready", "Rendering", "Paused",
           "PauseRequired", "UnpauseRequired", "EndReached", "Muted", "Error"}

\* A slot of cws that holds no object.
NoClip == [len |-> 0, begin |-> 0, state |-> "None", resync |-> FALSE,
           avail |-> <<>>, comp |-> <<>>, renderLock |-> "free", dec |-> "idle"]

\* VideoClipWorkflow::VideoClipWorkflow: nbBuffers frames pushed on the available queue.
NewClipWorkflow(len, begin) ==
    [len |-> len, begin |-> begin, state |-> "Stopped", resync |-> FALSE,
     avail |-> [i \in 1..NbBuffers |-> i], comp |-> <<>>,
     renderLock |-> "free", dec |-> "idle"]

\* VideoClipWorkflow::lock, first statement: the decoder thread takes the render lock.
LockAcquireNoLock(c) == [c EXCEPT !.dec = "locked"]
LockAcquire(c) == [c EXCEPT !.renderLock = "decoder", !.dec = "locked"]
CanLockAcquire(c) == c.dec = "idle" /\ c.renderLock = "free"

\* VideoClipWorkflow::lock, the rest: an available buffer moves to the computed queue.
LockFeedPushFront(c) ==
    [c EXCEPT !.avail = PoolPopped(c.avail),
              !.comp = <<PoolHead(c.avail)>> \o c.comp,
              !.dec = "filling"]
LockFeedTwice(c) ==
    [c EXCEPT !.avail = PoolPopped(c.avail),
              !.comp = PoolPushBack(PoolPushBack(c.comp, PoolHead(c.avail)), PoolHead(c.avail)),
              !.dec = "filling"]
LockFeedKeepAvailable(c) ==
    [c EXCEPT !.comp = PoolPushBack(c.comp, PoolHead(c.avail)), !.dec = "filling"]
LockFeed(c) ==
    [c EXCEPT !.avail = PoolPopped(c.avail),
              !.comp = PoolPushBack(c.comp, PoolHead(c.avail)),
              !.dec = "filling"]
CanLockFeed(c) == c.dec = "locked" /\ c.avail # <<>>

\* VideoClipWorkflow::unlock: the buffer the PTS drift is stored on.
UnlockBuffer(c) == PoolHead(c.comp)
\* VideoClipWorkflow::unlock: the render lock is given back.
Unlock(c) == [c EXCEPT !.renderLock = "free", !.dec = "idle"]
CanUnlock(c) == c.dec = "filling"

\* VideoClipWorkflow::getOutput, the part under the render lock.
\* Gives the workflow afterwards and the StackedBuffer returned.
GetOutputPeekBuffer(c) == c.comp
GetOutputPopBuffer(c) == PoolPopped(c.comp)
ClipGetOutput(id, c, mode) ==
    IF c.state = "EndReached" THEN [cw |-> c, buff |-> NULL]
    ELSE IF mode = "Pop"
         THEN [cw |-> [c EXCEPT !.comp = GetOutputPopBuffer(c)],
               buff |-> StackedBuffer(id, PoolHead(c.comp), TRUE)]
         ELSE [cw |-> c, buff |-> StackedBuffer(id, PoolHead(c.comp), FALSE)]

\* StackedBuffer::release on the workflow the buffer came from.
ReleaseBuffer(c, sb) ==
    IF sb.pool THEN [c EXCEPT !.avail = PoolPushBack(c.avail, sb.buf)] ELSE c

\* -------------------------------------------------- record of an operation
NoLog ==
    [op |-> "none", id |-> 0, mode |-> "none", ret |-> NULL,
     frame |-> 0, subFrame |-> 0, paused |-> FALSE, oneFrame |-> FALSE,
     needRepositioning |-> FALSE, trackEnd |-> FALSE, renders |-> <<>>, deleted |-> <<>>,
     moved |-> {}, asked |-> FALSE, lvf |-> 0]

\* ------------------------------------------------------------ ClipWorkflow
\* The base state machine of a clip workflow (initialize, stop, setTime,
\* the resync flag, the hooks around getOutput).
Abs(x) == IF x < 0 THEN -x ELSE x

\* ClipWorkflow::stop: the decoder is released, computed buffers go back to the pool.
CwStop(c) ==
    [c EXCEPT !.state = "Stopped", !.avail = SeqCat(c.avail, c.comp), !.comp = <<>>,
              !.renderLock = "free", !.dec = "idle"]

\* ClipWorkflow::setTime: seek, the computed buffers are stale and flushed.
CwSetTime(c) == [c EXCEPT !.avail = SeqCat(c.avail, c.comp), !.comp = <<>>]

\* ClipWorkflow::initialize then waitForCompleteInit, which succeeds or fails.
CwInitialize(c) == [c EXCEPT !.state = "Initializing"]
CwWaitForCompleteInit(c, ok) == [c EXCEPT !.state = IF ok THEN "Rendering" ELSE "Error"]

\* ClipWorkflow::stopRenderer: the decoder stops computing frames.
CwStopRenderer(c) == [c EXCEPT !.dec = "idle"]

\* ClipWorkflow::mute / unmute: the mute state is toggled, the decoder is not touched.
CwMute(c) == [c EXCEPT !.state = "Muted"]
CwUnmute(c) == IF c.state = "Muted" THEN [c EXCEPT !.state = "Stopped"] ELSE c

\* ClipWorkflow::preGetOutput: wait until the decoder has computed a buffer.
CwPreGetOutput(c) ==
    IF c.comp = <<>> THEN Unlock(LockFeed(LockAcquire(c))) ELSE c
\* getOutput cannot complete: the render lock is held, or no buffer can ever be computed.
CwGetOutputBlocks(c) == c.renderLock # "free" \/ (c.comp = <<>> /\ c.avail = <<>>)

\* The state changes the decoder and the player drive (not the track).
CwTransitions ==
    {<<"Initializing", "Ready">>, <<"Ready", "Rendering">>,
     <<"Rendering", "PauseRequired">>, <<"PauseRequired", "Paused">>,
     <<"Paused", "UnpauseRequired">>, <<"UnpauseRequired", "Rendering">>,
     <<"Rendering", "EndReached">>, <<"Paused", "EndReached">>}
     \cup {<<s, "Error">> : s \in States \ {"Stopped", "Muted", "Error"}}

DecoderRuns(c) == c.state \in {"Rendering", "PauseRequired", "UnpauseRequired"}

\* ------------------------------------------------------------ TrackWorkflow
Keys(clips) == {k \in DOMAIN clips : clips[k] # 0}
LastKey(clips) == CHOOSE k \in Keys(clips) : \A j \in Keys(clips) : j <= k
FirstKey(K) == CHOOSE k \in K : \A j \in K : k <= j
OnTrack(clips) == {clips[k] : k \in Keys(clips)}
KeyOf(clips, id) ==
    IF id \in OnTrack(clips) THEN FirstKey({k \in Keys(clips) : clips[k] = id}) ELSE -1
EmptyTrack == [k \in Starts |-> 0]
\* The keys in iteration order (QMap iterates by ascending key).
RECURSIVE KeySeq(_)
KeySeq(K) == IF K = {} THEN <<>> ELSE <<FirstKey(K)>> \o KeySeq(K \ {FirstKey(K)})

\* TrackWorkflow::computeLength
ComputeLength(clips, ws) ==
    IF Keys(clips) = {} THEN 0
    ELSE LastKey(clips) + ws[clips[LastKey(clips)]].len

\* TrackWorkflow::adjustClipTime: the seek target handed to setTime, in ms.
FrameToMs(n) == IF n >= 0 THEN (n * 1000) \div Fps ELSE -(((-n) * 1000) \div Fps)
AdjustClipTime(currentFrame, start, c) ==
    FrameToMs(c.begin) + FrameToMs(currentFrame - start)

\* TrackWorkflow::renderClip, GetMode selection
RenderModePop(paused, renderOneFrame) == "Pop"
RenderMode(paused, renderOneFrame) ==
    IF paused = FALSE \/ renderOneFrame = TRUE THEN "Pop" ELSE "Get"

\* TrackWorkflow::renderClip, the condition for a seek on a running clip
RunningNeedsSeekNoResync(resyncRequired, needRepositioning) == needRepositioning
RunningNeedsSeek(resyncRequired, needRepositioning) ==
    resyncRequired \/ needRepositioning
\* TrackWorkflow::renderClip, the condition for a seek on a clip just started
StartedNeedsSeek(c, currentFrame, start) ==
    Abs(start - currentFrame) > 1 \/ c.begin # 0

\* What the scan did to one clip: the branch taken, the ClipWorkflow methods
\* called in order, the GetMode, the seek targets and the StackedBuffer obtained.
NoRender == [id |-> 0, branch |-> "none", calls |-> <<>>, mode |-> "none",
             seeks |-> <<>>, buff |-> NULL, blocked |-> FALSE]

\* TrackWorkflow::renderClip, the seek and the fetch shared by both branches.
SeekAndFetch(id, c, seek, target, mode, log) ==
    LET c2 == IF seek THEN CwSetTime(c) ELSE c
        called == IF seek THEN Append(log.calls, "setTime") ELSE log.calls
    IN  IF CwGetOutputBlocks(c2)
        THEN [cw |-> c2, log |-> [log EXCEPT !.blocked = TRUE]]
        ELSE LET r == ClipGetOutput(id, CwPreGetOutput(c2), mode)
             IN [cw |-> r.cw,
                 log |-> [log EXCEPT !.mode = mode, !.buff = r.buff,
                                     !.calls = Append(called, "getOutput"),
                                     !.seeks = IF seek THEN <<target>> ELSE <<>>]]

\* TrackWorkflow::renderClip, the test of the branch that starts the clip
RenderStartsUnlessRunning(state) == state \in {"Stopped", "Muted"}
RenderStarts(state) == state = "Stopped"

\* TrackWorkflow::renderClip: the workflow afterwards, and what was done to it.
RenderClipFetchesAnyway(id, c, currentFrame, start, needRepositioning, renderOneFrame, paused, initOk) ==
    IF RenderStarts(c.state)
    THEN SeekAndFetch(id, CwWaitForCompleteInit(CwInitialize(c), initOk),
                      StartedNeedsSeek(c, currentFrame, start),
                      AdjustClipTime(currentFrame, start, c),
                      RenderMode(paused, renderOneFrame),
                      [NoRender EXCEPT !.id = id, !.branch = "render",
                                       !.calls = <<"initialize">>])
    ELSE [cw |-> c, log |-> [NoRender EXCEPT !.id = id, !.branch = "render"]]
RenderClip(id, c, currentFrame, start, needRepositioning, renderOneFrame, paused, initOk) ==
    LET mode == RenderMode(paused, renderOneFrame)
        log == [NoRender EXCEPT !.id = id, !.branch = "render"]
        target == AdjustClipTime(currentFrame, start, c)
    IN  IF c.state \in {"Rendering", "Paused", "PauseRequired", "UnpauseRequired"}
        THEN SeekAndFetch(id, [c EXCEPT !.resync = FALSE],
                          RunningNeedsSeek(c.resync, needRepositioning),
                          target, mode, log)
        ELSE IF RenderStarts(c.state)
        THEN LET c1 == CwWaitForCompleteInit(CwInitialize(c), initOk)
                 log1 == [log EXCEPT !.calls = <<"initialize">>]
             IN  IF ~initOk THEN [cw |-> c1, log |-> log1]
                 ELSE SeekAndFetch(id, c1, StartedNeedsSeek(c, currentFrame, start),
                                   target, mode, log1)
        ELSE [cw |-> c, log |-> log]

\* TrackWorkflow::preloadClip
PreloadClipAlways(c) == CwInitialize(c)
PreloadClip(c) == IF c.state = "Stopped" THEN CwInitialize(c) ELSE c

\* TrackWorkflow::stopClipWorkflow: the early return, the workflow afterwards,
\* and the ClipWorkflow methods it called.
StopClipWorkflowReturnsStopped(state) == state = "Stopped"
StopClipWorkflowReturnsUnlessError(state) == state \in {"Stopped", "Muted"}
StopClipWorkflowReturns(state) == state \in {"Stopped", "Muted", "Error"}
StopClipWorkflowLeaves(c) == c
StopClipWorkflow(c) ==
    IF StopClipWorkflowReturns(c.state) THEN c ELSE CwStop(c)
StopClipWorkflowCalls(c) ==
    IF StopClipWorkflowReturns(c.state) THEN <<>> ELSE <<"stop">>

\* TrackWorkflow::checkEnd
CheckEndAtLastFrame(clips, ws, currentFrame) ==
    IF Keys(clips) = {} THEN TRUE
    ELSE ws[clips[LastKey(clips)]].state = "Error"
         \/ ws[clips[LastKey(clips)]].len + LastKey(clips) <= currentFrame
CheckEnd(clips, ws, currentFrame) ==
    IF Keys(clips) = {} THEN TRUE
    ELSE LET k == LastKey(clips)
             cw == ws[clips[k]]
         IN IF cw.state = "Error" THEN TRUE
            ELSE cw.len + k < currentFrame

\* TrackWorkflow::getOutput, the computation of needRepositioning
NeedRepositioningWhenPaused(paused, subFrame, lastFrame, renderOneFrame) ==
    (paused /\ subFrame # lastFrame) \/ Abs(subFrame - lastFrame) > 1
NeedRepositioningOnAnyChange(paused, subFrame, lastFrame, renderOneFrame) ==
    subFrame # lastFrame
NeedRepositioning(paused, subFrame, lastFrame, renderOneFrame) ==
    IF paused = TRUE /\ subFrame # lastFrame /\ renderOneFrame = FALSE
    THEN TRUE
    ELSE Abs(subFrame - lastFrame) > 1

\* TrackWorkflow::getOutput, the tests of the scan
IsActive(start, len, currentFrame) ==
    start <= currentFrame /\ currentFrame <= start + len
IsPreload(start, currentFrame) ==
    start > currentFrame /\ start - currentFrame < NbFrameBeforePreload

\* --------------------------------------------- one clip workflow, threaded
\* The decoder thread runs the lock/unlock callback pair; a consumer thread
\* calls getOutput and releases the StackedBuffers it was given.
PoolClip == CHOOSE i \in ClipIds : \A j \in ClipIds : i <= j

InitPool ==
    /\ m_clips = <<>>
    /\ cws = [i \in ClipIds |->
                IF i = PoolClip
                THEN [NewClipWorkflow(1, 0) EXCEPT !.state = "Rendering"]
                ELSE NoClip]
    /\ m_length = 0
    /\ m_lastFrame = 0
    /\ m_renderOneFrame = FALSE
    /\ m_videoStackedBuffer = NULL
    /\ outstanding = EmptyBag
    /\ consumer = [pc |-> "idle", mode |-> "none"]
    /\ moved = {}
    /\ asked = FALSE
    /\ last = NoLog
    /\ NoCaller

TrackUnchanged ==
    UNCHANGED <<m_clips, m_length, m_lastFrame, m_renderOneFrame, m_videoStackedBuffer,
               moved, asked>>

DecoderLockAcquire(id) ==
    /\ DecoderRuns(cws[id])
    /\ CanLockAcquire(cws[id])
    /\ cws' = [cws EXCEPT ![id] = LockAcquire(@)]
    /\ last' = [NoLog EXCEPT !.op = "lockAcquire", !.id = id]
    /\ UNCHANGED <<outstanding, consumer>>
    /\ TrackUnchanged

DecoderLockFeed(id) ==
    /\ DecoderRuns(cws[id])
    /\ CanLockFeed(cws[id])
    /\ cws' = [cws EXCEPT ![id] = LockFeed(@)]
    /\ last' = [NoLog EXCEPT !.op = "lock", !.id = id, !.lvf = PoolHead(cws[id].avail)]
    /\ UNCHANGED <<outstanding, consumer>>
    /\ TrackUnchanged

DecoderUnlock(id) ==
    /\ DecoderRuns(cws[id])
    /\ CanUnlock(cws[id])
    /\ cws' = [cws EXCEPT ![id] = Unlock(@)]
    /\ last' = [NoLog EXCEPT !.op = "unlock", !.id = id, !.lvf = UnlockBuffer(cws[id])]
    /\ UNCHANGED <<outstanding, consumer>>
    /\ TrackUnchanged

GetTokens(bag) == {sb \in BagToSet(bag) : ~sb.pool}
NbGetTokens(bag) ==
    LET RECURSIVE Sum(_)
        Sum(S) == IF S = {} THEN 0
                  ELSE LET x == CHOOSE y \in S : TRUE
                       IN CopiesIn(x, bag) + Sum(S \ {x})
    IN Sum(GetTokens(bag))

\* The consumer enters getOutput( mode ).
ConsumerCall(mode) ==
    /\ consumer.pc = "idle"
    /\ mode = "Get" => NbGetTokens(outstanding) < MaxGets
    /\ consumer' = [pc |-> "preGetOutput", mode |-> mode]
    /\ last' = [NoLog EXCEPT !.op = "call", !.id = PoolClip, !.mode = mode]
    /\ UNCHANGED <<cws, outstanding>>
    /\ TrackUnchanged

\* preGetOutput: wait, without the render lock, until a buffer is computed.
ConsumerPreGetOutput ==
    /\ consumer.pc = "preGetOutput"
    /\ cws[PoolClip].comp # <<>>
    /\ consumer' = [consumer EXCEPT !.pc = "renderLock"]
    /\ last' = [NoLog EXCEPT !.op = "preGetOutput", !.id = PoolClip]
    /\ UNCHANGED <<cws, outstanding>>
    /\ TrackUnchanged

\* The rest of getOutput, under the render lock.
ConsumerGetOutput ==
    /\ consumer.pc = "renderLock"
    /\ cws[PoolClip].renderLock = "free"
    /\ LET r == ClipGetOutput(PoolClip, cws[PoolClip], consumer.mode)
       IN /\ cws' = [cws EXCEPT ![PoolClip] = r.cw]
          /\ outstanding' = IF r.buff = NULL THEN outstanding
                            ELSE outstanding (+) SetToBag({r.buff})
          /\ last' = [NoLog EXCEPT !.op = "getOutput", !.id = PoolClip,
                                    !.mode = consumer.mode, !.ret = r.buff]
    /\ consumer' = [pc |-> "idle", mode |-> "none"]
    /\ TrackUnchanged

\* The holder of a StackedBuffer releases it.
ConsumerRelease(sb) ==
    /\ BagIn(sb, outstanding)
    /\ cws' = [cws EXCEPT ![sb.cw] = ReleaseBuffer(@, sb)]
    /\ outstanding' = outstanding (-) SetToBag({sb})
    /\ last' = [NoLog EXCEPT !.op = "release", !.id = sb.cw, !.ret = sb]
    /\ UNCHANGED consumer
    /\ TrackUnchanged

NextPool ==
    \/ DecoderLockAcquire(PoolClip) /\ Alone
    \/ DecoderLockFeed(PoolClip) /\ Alone
    \/ DecoderUnlock(PoolClip) /\ Alone
    \/ \E mode \in {"Pop", "Get"} : ConsumerCall(mode) /\ Alone
    \/ ConsumerPreGetOutput /\ Alone
    \/ ConsumerGetOutput /\ Alone
    \/ \E sb \in BagToSet(outstanding) : ConsumerRelease(sb) /\ Alone

SpecPool == InitPool /\ [][NextPool]_vars

\* --------------------------------------------------- the track, operations
InitTrack ==
    /\ m_clips = EmptyTrack
    /\ cws = [i \in ClipIds |-> NoClip]
    /\ m_length = 0
    /\ m_lastFrame = 0
    /\ m_renderOneFrame \in BOOLEAN   \* the constructor leaves it unset
    /\ m_videoStackedBuffer = NULL
    /\ outstanding = EmptyBag
    /\ consumer = [pc |-> "idle", mode |-> "none"]
    /\ moved = {}
    /\ asked = FALSE
    /\ last = NoLog
    /\ NoCaller

\* Tokens of a destroyed workflow point into freed memory.
Dangling(sb, ids) == IF sb.cw \in ids THEN [sb EXCEPT !.cw = 0] ELSE sb
LiveTokens(bag, ids) ==
    LET D == {sb \in BagToSet(bag) : sb.cw \notin ids}
    IN [sb \in D |-> bag[sb]]

\* TrackWorkflow::releasePreviousRender
ReleasePreviousRender(ws, held) ==
    IF held # NULL /\ held.cw # 0
    THEN [ws EXCEPT ![held.cw] = ReleaseBuffer(@, held)]
    ELSE ws
ReleasedFrom(bag, held) ==
    IF held # NULL /\ held.cw # 0 THEN bag (-) SetToBag({held}) ELSE bag

\* TrackWorkflow::addClip( ClipWorkflow*, qint64 )
AddClipMapAlone(clips, start, id) == [EmptyTrack EXCEPT ![start] = id]
AddClipMap(clips, start, id) == [clips EXCEPT ![start] = id]
AddClip(id, start, len, begin) ==
    /\ id \notin OnTrack(m_clips)
    /\ IF cws[id] = NoClip
       THEN cws' = [cws EXCEPT ![id] = NewClipWorkflow(len, begin)]
       ELSE /\ len = cws[id].len
            /\ begin = cws[id].begin
            /\ cws' = cws
    /\ m_clips' = AddClipMap(m_clips, start, id)
    /\ m_length' = ComputeLength(m_clips', cws')
    /\ last' = [NoLog EXCEPT !.op = "addClip", !.id = id, !.frame = start]
    /\ UNCHANGED <<m_lastFrame, m_renderOneFrame, m_videoStackedBuffer,
                   outstanding, consumer, moved, asked>>

\* The walk over m_clips that moveClip, removeClip, removeClipWorkflow, muteClip
\* and unmuteClip start with: whether a clip's uuid is the id asked for.
FindClipAny(clips, id) == Keys(clips) # {}
FindClip(clips, id) == \E k \in Keys(clips) : clips[k] = id

\* TrackWorkflow::moveClip
MoveClipMap(clips, id, startingFrame) ==
    [[clips EXCEPT ![KeyOf(clips, id)] = 0] EXCEPT ![startingFrame] = id]
MoveClip(id, startingFrame) ==
    /\ IF FindClip(m_clips, id)
       THEN /\ m_clips' = MoveClipMap(m_clips, id, startingFrame)
            /\ cws' = [cws EXCEPT ![id].resync = TRUE]
            /\ m_length' = ComputeLength(m_clips', cws')
       ELSE UNCHANGED <<m_clips, cws, m_length>>
    /\ last' = [NoLog EXCEPT !.op = "moveClip", !.id = id, !.frame = startingFrame,
                              !.mode = IF FindClip(m_clips, id) THEN "found" ELSE "missing"]
    /\ UNCHANGED <<m_lastFrame, m_renderOneFrame, m_videoStackedBuffer,
                   outstanding, consumer>>
    /\ UNCHANGED asked
    /\ moved' = IF FindClip(m_clips, id) THEN moved \cup {id} ELSE moved

\* TrackWorkflow::removeClip
RemoveClip(id) ==
    /\ IF FindClip(m_clips, id)
       THEN /\ m_clips' = [m_clips EXCEPT ![KeyOf(m_clips, id)] = 0]
            /\ cws' = [cws EXCEPT ![id] = NoClip]
            /\ m_length' = ComputeLength(m_clips', cws')
            /\ m_videoStackedBuffer' = Dangling(m_videoStackedBuffer, {id})
            /\ outstanding' = LiveTokens(outstanding, {id})
            /\ last' = [NoLog EXCEPT !.op = "removeClip", !.id = id, !.mode = "found",
                                      !.trackEnd = (m_length' = 0),
                                      !.deleted = <<StopClipWorkflow(cws[id]).state>>]
       ELSE /\ UNCHANGED <<m_clips, cws, m_length, m_videoStackedBuffer, outstanding>>
            /\ last' = [NoLog EXCEPT !.op = "removeClip", !.id = id, !.mode = "missing"]
    /\ UNCHANGED asked
    /\ moved' = moved \ {id}
    /\ UNCHANGED <<m_lastFrame, m_renderOneFrame, consumer>>

\* TrackWorkflow::removeClipWorkflow
RemoveClipWorkflow(id) ==
    /\ IF FindClip(m_clips, id)
       THEN /\ m_clips' = [m_clips EXCEPT ![KeyOf(m_clips, id)] = 0]
            /\ m_length' = ComputeLength(m_clips', cws)
       ELSE UNCHANGED <<m_clips, m_length>>
    /\ last' = [NoLog EXCEPT !.op = "removeClipWorkflow", !.id = id,
                              !.mode = IF FindClip(m_clips, id) THEN "found" ELSE "missing"]
    /\ UNCHANGED <<cws, m_lastFrame, m_renderOneFrame, m_videoStackedBuffer,
                   outstanding, consumer>>
    /\ UNCHANGED asked
    /\ moved' = moved \ {id}

\* TrackWorkflow::clear
Clear ==
    /\ m_clips' = EmptyTrack
    /\ cws' = [i \in ClipIds |-> IF i \in OnTrack(m_clips) THEN NoClip ELSE cws[i]]
    /\ m_length' = 0
    /\ m_videoStackedBuffer' = Dangling(m_videoStackedBuffer, OnTrack(m_clips))
    /\ outstanding' = LiveTokens(outstanding, OnTrack(m_clips))
    /\ last' = [NoLog EXCEPT !.op = "clear",
                              !.deleted = [i \in 1..Len(KeySeq(Keys(m_clips))) |->
                                  cws[m_clips[KeySeq(Keys(m_clips))[i]]].state]]
    /\ UNCHANGED asked
    /\ moved' = moved \ OnTrack(m_clips)
    /\ UNCHANGED <<m_lastFrame, m_renderOneFrame, consumer>>

\* TrackWorkflow::muteClip
MuteClip(id) ==
    /\ cws' = IF FindClip(m_clips, id) THEN [cws EXCEPT ![id] = CwMute(@)] ELSE cws
    /\ last' = [NoLog EXCEPT !.op = "muteClip", !.id = id,
                              !.mode = IF FindClip(m_clips, id) THEN "found" ELSE "missing"]
    /\ UNCHANGED <<m_clips, m_length, m_lastFrame, m_renderOneFrame,
                   m_videoStackedBuffer, outstanding, consumer, moved, asked>>

\* TrackWorkflow::unmuteClip
UnmuteClip(id) ==
    /\ cws' = IF FindClip(m_clips, id) THEN [cws EXCEPT ![id] = CwUnmute(@)] ELSE cws
    /\ last' = [NoLog EXCEPT !.op = "unmuteClip", !.id = id,
                              !.mode = IF FindClip(m_clips, id) THEN "found" ELSE "missing"]
    /\ UNCHANGED <<m_clips, m_length, m_lastFrame, m_renderOneFrame,
                   m_videoStackedBuffer, outstanding, consumer, moved, asked>>

\* TrackWorkflow::renderOneFrame
RenderOneFrame ==
    /\ m_renderOneFrame' = TRUE
    /\ last' = [NoLog EXCEPT !.op = "renderOneFrame"]
    /\ UNCHANGED <<m_clips, cws, m_length, m_lastFrame, m_videoStackedBuffer,
                   outstanding, consumer, moved>>
    /\ asked' = TRUE

\* TrackWorkflow::stop
RECURSIVE StopAll(_, _)
StopAll(ids, ws) ==
    IF ids = {} THEN ws
    ELSE LET id == CHOOSE i \in ids : TRUE
         IN StopAll(ids \ {id}, [ws EXCEPT ![id] = StopClipWorkflow(@)])
Stop ==
    /\ cws' = ReleasePreviousRender(StopAll(OnTrack(m_clips), cws), m_videoStackedBuffer)
    /\ outstanding' = ReleasedFrom(outstanding, m_videoStackedBuffer)
    /\ m_videoStackedBuffer' = NULL
    /\ m_lastFrame' = 0
    /\ last' = [NoLog EXCEPT !.op = "stop", !.ret = m_videoStackedBuffer,
                              !.renders = [i \in 1..Len(KeySeq(Keys(m_clips))) |->
                                  [NoRender EXCEPT
                                     !.id = m_clips[KeySeq(Keys(m_clips))[i]],
                                     !.branch = "stop",
                                     !.calls = StopClipWorkflowCalls(
                                         cws[m_clips[KeySeq(Keys(m_clips))[i]]])]]]
    /\ UNCHANGED <<m_clips, m_length, m_renderOneFrame, consumer, moved, asked>>

\* TrackWorkflow::getOutput, the scan of the clips by ascending start frame.
\* acc: the workflows, ret, the StackedBuffer the track retains, the
\* StackedBuffers handed out, and what was done to each clip.
ScanRetained(previous, buff) == buff
RECURSIVE ScanClips(_, _, _, _, _, _, _, _)
ScanClips(keys, acc, clips, currentFrame, needRepositioning, renderOneFrame, paused, okSet) ==
    IF keys = <<>> THEN acc
    ELSE
      LET start == Head(keys)
          id == clips[start]
          c == acc.ws[id]
          step ==
            IF IsActive(start, c.len, currentFrame)
            THEN LET r == RenderClip(id, c, currentFrame, start, needRepositioning,
                                     renderOneFrame, paused, id \in okSet)
                 IN [ws |-> [acc.ws EXCEPT ![id] = r.cw],
                     ret |-> r.log.buff,
                     held |-> ScanRetained(acc.held, r.log.buff),
                     out |-> IF r.log.buff = NULL THEN acc.out
                             ELSE acc.out (+) SetToBag({r.log.buff}),
                     renders |-> Append(acc.renders, r.log)]
            ELSE IF IsPreload(start, currentFrame)
            THEN [acc EXCEPT !.ws[id] = PreloadClip(c),
                             !.renders = Append(@, [NoRender EXCEPT !.id = id,
                                 !.branch = "preload",
                                 !.calls = IF PreloadClip(c) # c
                                           THEN <<"initialize">> ELSE <<>>])]
            ELSE [acc EXCEPT !.ws[id] = StopClipWorkflow(c),
                             !.renders = Append(@, [NoRender EXCEPT !.id = id,
                                 !.branch = "stop",
                                 !.calls = StopClipWorkflowCalls(c)])]
      IN ScanClips(Tail(keys), step, clips, currentFrame, needRepositioning,
                   renderOneFrame, paused, okSet)

\* TrackWorkflow::getOutput, the whole call.
GetOutputResult(currentFrame, subFrame, paused, okSet) ==
    LET ws0 == ReleasePreviousRender(cws, m_videoStackedBuffer)
        out0 == ReleasedFrom(outstanding, m_videoStackedBuffer)
        lastFrame == IF m_lastFrame = -1 THEN currentFrame ELSE m_lastFrame
        renderOneFrame == m_renderOneFrame
        needRepositioning == NeedRepositioning(paused, subFrame, lastFrame, renderOneFrame)
        acc == ScanClips(KeySeq(Keys(m_clips)),
                         [ws |-> ws0, ret |-> NULL, held |-> NULL, out |-> out0,
                          renders |-> <<>>],
                         m_clips, currentFrame, needRepositioning, renderOneFrame,
                         paused, okSet)
    IN [ws |-> acc.ws, ret |-> acc.ret, held |-> acc.held, out |-> acc.out,
        log |-> [NoLog EXCEPT !.op = "getOutput", !.frame = currentFrame,
                              !.subFrame = subFrame, !.paused = paused,
                              !.oneFrame = renderOneFrame,
                              !.needRepositioning = needRepositioning,
                              !.trackEnd = CheckEnd(m_clips, ws0, currentFrame),
                              !.ret = acc.ret, !.renders = acc.renders]]

Blocked(renders) == \E i \in 1..Len(renders) : renders[i].blocked

GetOutput(currentFrame, subFrame, paused, okSet) ==
    \E r \in {GetOutputResult(currentFrame, subFrame, paused, okSet)} :
       /\ ~Blocked(r.log.renders)
       /\ NbGetTokens(r.out) <= MaxGets
       /\ cws' = r.ws
       /\ outstanding' = r.out
       /\ m_videoStackedBuffer' = r.held
       /\ m_renderOneFrame' = FALSE
       /\ m_lastFrame' = subFrame
       /\ last' = [r.log EXCEPT !.moved = moved, !.asked = asked]
       /\ asked' = FALSE
       /\ moved' = moved \ {r.log.renders[i].id : i \in {j \in 1..Len(r.log.renders) :
                                    r.log.renders[j].branch = "render"}}
       /\ UNCHANGED <<m_clips, m_length, consumer>>

\* The clip's state changes under the decoder and the player.
CwStateChange(id, to) ==
    /\ <<cws[id].state, to>> \in CwTransitions
    /\ cws' = [cws EXCEPT ![id].state = to]
    /\ last' = [NoLog EXCEPT !.op = "stateChange", !.id = id]
    /\ UNCHANGED <<outstanding, consumer>>
    /\ TrackUnchanged

\* ------------------------------------------------------ specifications
\* The track as it is built and edited: no frame is requested.
Next ==
    \/ \E id \in ClipIds, start \in Starts, len \in Lens, begin \in Begins :
          AddClip(id, start, len, begin) /\ Alone
    \/ \E id \in ClipIds, start \in Starts : MoveClip(id, start) /\ Alone
    \/ \E id \in ClipIds : RemoveClip(id) /\ Alone
    \/ \E id \in ClipIds : RemoveClipWorkflow(id) /\ Alone
    \/ Clear /\ Alone

Spec == InitTrack /\ [][Next]_vars

\* A track as addClip leaves it, holding the clips `ids`, nothing rendered yet.
Layouts(ids) ==
    {l \in [Starts -> {0} \cup ids] :
        /\ OnTrack(l) = ids
        /\ \A a, b \in Starts : (a # b /\ l[a] # 0) => l[a] # l[b]}
InitPlaced(ids) ==
    /\ m_clips \in Layouts(ids)
    /\ cws \in [ClipIds -> {NoClip} \cup
                  {NewClipWorkflow(len, begin) : len \in ClipLens, begin \in Begins}]
    /\ \A i \in ClipIds : (cws[i] # NoClip) <=> (i \in ids)
    /\ m_length = ComputeLength(m_clips, cws)
    /\ m_lastFrame = 0
    /\ m_renderOneFrame \in BOOLEAN   \* the constructor leaves it unset
    /\ m_videoStackedBuffer = NULL
    /\ outstanding = EmptyBag
    /\ consumer = [pc |-> "idle", mode |-> "none"]
    /\ moved = {}
    /\ asked = FALSE
    /\ last = NoLog
    /\ NoCaller

\* One clip on the track; the scheduler against the clip's state machine.
\* The decoder computes a buffer when the consumer waits for one.
SchedClip == CHOOSE i \in ClipIds : \A j \in ClipIds : i <= j
InitSched == InitPlaced({SchedClip})
NextSched ==
    \/ \E start \in Starts : MoveClip(SchedClip, start) /\ Alone
    \/ RenderOneFrame /\ Alone
    \/ Stop /\ Alone
    \/ \E f \in Frames, paused \in BOOLEAN, okSet \in SUBSET {SchedClip} :
          GetOutput(f, f, paused, okSet) /\ Alone
    \/ \E to \in States : CwStateChange(SchedClip, to) /\ Alone
SpecSched == InitSched /\ [][NextSched]_vars

\* One clip on the track, played unpaused while the command thread moves,
\* mutes, removes and clears, with ids that are on the track or not.
NextEdit ==
    \/ \E id \in ClipIds \ {SchedClip}, start \in Starts : MoveClip(id, start) /\ Alone
    \/ \E id \in ClipIds : RemoveClip(id) /\ Alone
    \/ \E id \in ClipIds : RemoveClipWorkflow(id) /\ Alone
    \/ Clear /\ Alone
    \/ \E id \in ClipIds : MuteClip(id) /\ Alone
    \/ \E id \in ClipIds : UnmuteClip(id) /\ Alone
    \/ Stop /\ Alone
    \/ \E f \in Frames : GetOutput(f, f, FALSE, {SchedClip}) /\ Alone
    \/ \E to \in States : CwStateChange(SchedClip, to) /\ Alone
SpecEdit == InitSched /\ [][NextEdit]_vars

\* One clip on the track; the scheduler against a decoder that runs ahead,
\* while the player pauses and resumes the clip.
NextRender ==
    \/ RenderOneFrame /\ Alone
    \/ Stop /\ Alone
    \/ \E f \in Frames, paused \in BOOLEAN : GetOutput(f, f, paused, {SchedClip}) /\ Alone
    \/ DecoderLockAcquire(SchedClip) /\ Alone
    \/ DecoderLockFeed(SchedClip) /\ Alone
    \/ DecoderUnlock(SchedClip) /\ Alone
    \/ \E to \in {"PauseRequired", "Paused", "UnpauseRequired", "Rendering"} :
          CwStateChange(SchedClip, to) /\ Alone
SpecRender == InitSched /\ [][NextRender]_vars

\* Several clips on the track, wherever addClip put them.
\* The first clip starts the track, every decoder opens its media.
InitOverlap ==
    /\ InitPlaced(ClipIds)
    /\ m_clips[0] = 1
    /\ \A i \in ClipIds : cws[i].begin = 0
NextOverlap ==
    \/ RenderOneFrame /\ Alone
    \/ Stop /\ Alone
    \/ \E f \in Frames, paused \in BOOLEAN : GetOutput(f, f, paused, ClipIds) /\ Alone
SpecOverlap == InitOverlap /\ [][NextOverlap]_vars

\* Several clips on the track, each starting one frame after the one before,
\* played unpaused by a renderer whose decoders may fail to open their media.
InitFail ==
    /\ InitPlaced(ClipIds)
    /\ \A i \in ClipIds : m_clips[i - 1] = i /\ cws[i].begin = 0
NextFail ==
    \/ Stop /\ Alone
    \/ \E f \in Frames, okSet \in SUBSET ClipIds : GetOutput(f, f, FALSE, okSet) /\ Alone
SpecFail == InitFail /\ [][NextFail]_vars

\* TrackWorkflow::preload: the clips that start in the first frames are preloaded.
Preload ==
    LET keys == KeySeq({k \in Keys(m_clips) : k < NbFrameBeforePreload})
    IN /\ cws' = [i \in ClipIds |->
                    IF \E j \in 1..Len(keys) : m_clips[keys[j]] = i
                    THEN PreloadClip(cws[i]) ELSE cws[i]]
       /\ last' = [NoLog EXCEPT !.op = "preload",
                     !.renders = [j \in 1..Len(keys) |->
                        [NoRender EXCEPT
                           !.id = m_clips[keys[j]],
                           !.branch = "preload",
                           !.calls = IF PreloadClip(cws[m_clips[keys[j]]]) # cws[m_clips[keys[j]]]
                                     THEN <<"initialize">> ELSE <<>>]]]
       /\ UNCHANGED <<m_clips, m_length, m_lastFrame, m_renderOneFrame,
                      m_videoStackedBuffer, outstanding, consumer, moved, asked>>

\* TrackWorkflow::stopFrameComputing: the walk over the clips by ascending
\* start frame, which returns at the first clip found Stopped, Muted or Error.
RECURSIVE StopFrameComputingFrom(_, _, _)
StopFrameComputingFrom(keys, clips, acc) ==
    IF keys = <<>> THEN acc
    ELSE LET id == clips[Head(keys)]
             c == acc.ws[id]
             log == [NoRender EXCEPT !.id = id, !.branch = "stopRenderer"]
         IN IF c.state \in {"Stopped", "Muted", "Error"}
            THEN [acc EXCEPT !.renders = Append(@, log)]
            ELSE StopFrameComputingFrom(Tail(keys), clips,
                    [ws |-> [acc.ws EXCEPT ![id] = CwStopRenderer(c)],
                     renders |-> Append(acc.renders,
                                        [log EXCEPT !.calls = <<"stopRenderer">>])])
StopFrameComputing ==
    LET r == StopFrameComputingFrom(KeySeq(Keys(m_clips)), m_clips,
                                    [ws |-> cws, renders |-> <<>>])
    IN /\ cws' = r.ws
       /\ last' = [NoLog EXCEPT !.op = "stopFrameComputing", !.renders = r.renders]
       /\ UNCHANGED <<m_clips, m_length, m_lastFrame, m_renderOneFrame,
                      m_videoStackedBuffer, outstanding, consumer, moved, asked>>

\* Adjacent clips played, preloaded and stopped while their decoders start,
\* pause, end and fail.
NextError ==
    \/ Stop /\ Alone
    \/ \E f \in Frames, okSet \in SUBSET ClipIds : GetOutput(f, f, FALSE, okSet) /\ Alone
    \/ Preload /\ Alone
    \/ StopFrameComputing /\ Alone
    \/ \E id \in ClipIds, to \in States : CwStateChange(id, to) /\ Alone
SpecError == InitFail /\ [][NextError]_vars

\* ------------------------------------------------- the calls, thread by thread
\* Where a thread is inside a call of the track:
\*   "writing"   addClip, removeClip, removeClipWorkflow, moveClip, clear,
\*               inside the scope of their QWriteLocker on m_clipsLock
\*   "muting"    muteClip, unmuteClip, inside the scope of their QWriteLocker
\*   "scanning"  getOutput, inside the scope of its QReadLocker
\*   "stopping"  stop, which walks m_clips and builds no locker
\*   "reading"   getLength, getClipPosition, getClip, contains,
\*               setFullSpeedRender, stopFrameComputing, which read m_length
\*               or walk m_clips and build no locker
WriteLocked == {"writing", "muting"}
ReadLocked == {"scanning"}
NotLocked == {"stopping", "reading"}

Enter(t, pc) ==
    /\ callers[t] = IdleCaller
    /\ callers' = [callers EXCEPT ![t] = pc]
    /\ UNCHANGED <<m_clips, cws, m_length, m_lastFrame, m_renderOneFrame,
                   m_videoStackedBuffer, outstanding, consumer, moved, asked, last,
                   paths>>
Return(t) ==
    /\ callers' = [callers EXCEPT ![t] = IdleCaller]
    /\ UNCHANGED paths

\* QWriteLocker lock( m_clipsLock ): waits until no thread holds the lock.
WriteLockerEnter(t, pc) ==
    /\ pc \in WriteLocked
    /\ m_clipsLock = Unlocked
    /\ m_clipsLock' = [m_clipsLock EXCEPT !.writer = t]
    /\ Enter(t, pc)

\* The body of the call under the write lock, to the end of the locker's scope.
WriteLockerLeave(t) ==
    /\ callers[t] \in WriteLocked
    /\ m_clipsLock.writer = t
    /\ m_clipsLock' = [m_clipsLock EXCEPT !.writer = 0]
    /\ Return(t)
    /\ \/ /\ callers[t] = "writing"
          /\ \/ \E start \in Starts, len \in ClipLens :
                   AddClip(SchedClip, start, len, 0)
             \/ \E id \in ClipIds, start \in Starts : MoveClip(id, start)
             \/ \E id \in ClipIds : RemoveClip(id)
             \/ \E id \in ClipIds : RemoveClipWorkflow(id)
             \/ Clear
       \/ /\ callers[t] = "muting"
          /\ \/ \E id \in ClipIds : MuteClip(id)
             \/ \E id \in ClipIds : UnmuteClip(id)

\* QReadLocker lock( m_clipsLock ): waits while a writer holds the lock.
ReadLockerEnter(t, pc) ==
    /\ pc \in ReadLocked
    /\ m_clipsLock.writer = 0
    /\ m_clipsLock' = [m_clipsLock EXCEPT !.readers = @ \cup {t}]
    /\ Enter(t, pc)

\* TrackWorkflow::getOutput, the scan under the read lock, to the return.
ReadLockerLeave(t) ==
    /\ callers[t] \in ReadLocked
    /\ t \in m_clipsLock.readers
    /\ m_clipsLock' = [m_clipsLock EXCEPT !.readers = @ \ {t}]
    /\ Return(t)
    /\ \E f \in Frames : GetOutput(f, f, FALSE, ClipIds)

\* A call that walks m_clips or reads m_length and builds no locker.
UnlockedEnter(t, pc) ==
    /\ pc \in NotLocked
    /\ UNCHANGED m_clipsLock
    /\ Enter(t, pc)

UnlockedLeave(t) ==
    /\ callers[t] \in NotLocked
    /\ UNCHANGED m_clipsLock
    /\ Return(t)
    /\ \/ /\ callers[t] = "stopping"
          /\ Stop
       \/ /\ callers[t] = "reading"
          /\ last' = [NoLog EXCEPT !.op = "read"]
          /\ UNCHANGED <<m_clips, cws, m_length, m_lastFrame, m_renderOneFrame,
                         m_videoStackedBuffer, outstanding, consumer, moved, asked>>

\* One clip, put on the track and taken off it, moved and muted by some threads
\* while others play the track, stop it and query it.
NextLock ==
    \/ \E t \in Threads, pc \in WriteLocked : WriteLockerEnter(t, pc)
    \/ \E t \in Threads : WriteLockerLeave(t)
    \/ \E t \in Threads, pc \in ReadLocked : ReadLockerEnter(t, pc)
    \/ \E t \in Threads : ReadLockerLeave(t)
    \/ \E t \in Threads, pc \in NotLocked : UnlockedEnter(t, pc)
    \/ \E t \in Threads : UnlockedLeave(t)
SpecLock == InitSched /\ [][NextLock]_vars

\* ------------------------------------------- the two locks of a clip, threaded
\* The paths of TrackWorkflow that take the state lock of a clip workflow,
\* statement by statement, run by threads against one clip.
StateLockPaths ==
    {"renderClip", "preloadClip", "stopClipWorkflow", "checkEnd", "stopFrameComputing"}
PathClip == SchedClip
StateLockReaders == {t \in Threads : paths[t].held > 0}

\* The unlock() calls on the state lock that a path executes on the branch it
\* takes for the state it read.
StateLockUnlocksButUnexpected(fn, state) ==
    IF fn = "renderClip" /\ state \in {"Initializing", "Ready"} THEN 0 ELSE 1
StateLockUnlocks(fn, state) ==
    IF fn = "renderClip"
    THEN IF state \in {"Rendering", "Paused", "PauseRequired", "UnpauseRequired"} THEN 1
         ELSE IF state = "Stopped" THEN 1
         ELSE IF state \in {"EndReached", "Muted", "Error"} THEN 1
         ELSE 1
    ELSE IF fn \in {"preloadClip", "stopClipWorkflow", "stopFrameComputing"}
    THEN IF state \in {"Stopped", "Muted", "Error"} THEN 1 ELSE 1
    ELSE 1

\* The ClipWorkflow methods a path calls after that branch, in order.
StateLockCalls(fn, c, currentFrame, start, needRepositioning) ==
    IF fn = "renderClip"
    THEN IF c.state \in {"Rendering", "Paused", "PauseRequired", "UnpauseRequired"}
         THEN (IF RunningNeedsSeek(c.resync, needRepositioning)
               THEN <<"setTime">> ELSE <<>>) \o <<"getOutput">>
         ELSE IF RenderStarts(c.state)
         THEN <<"initialize", "waitForCompleteInit">>
              \o (IF StartedNeedsSeek(c, currentFrame, start)
                  THEN <<"setTime">> ELSE <<>>)
              \o <<"getOutput">>
         ELSE <<>>
    ELSE IF fn = "preloadClip"
    THEN IF c.state = "Stopped" THEN <<"initialize">> ELSE <<>>
    ELSE IF fn = "stopClipWorkflow"
    THEN StopClipWorkflowCalls(c)
    ELSE IF fn = "stopFrameComputing"
    THEN IF c.state \in {"Stopped", "Muted", "Error"} THEN <<>> ELSE <<"stopRenderer">>
    ELSE <<>>

PathUnchanged ==
    UNCHANGED <<m_clips, m_length, m_lastFrame, m_renderOneFrame, m_videoStackedBuffer,
                consumer, moved, asked, m_clipsLock, callers>>

\* A thread enters one of the paths.
PathEnter(t, fn) ==
    /\ paths[t].pc = "idle"
    /\ fn \in StateLockPaths
    /\ paths' = [paths EXCEPT ![t] = [@ EXCEPT !.fn = fn, !.pc = "lockForRead"]]
    /\ last' = [NoLog EXCEPT !.op = fn, !.id = PathClip]
    /\ UNCHANGED <<cws, outstanding>>
    /\ PathUnchanged

\* cw->getStateLock()->lockForRead(), or the QReadLocker of checkEnd.
PathLockForRead(t) ==
    /\ paths[t].pc = "lockForRead"
    /\ paths' = [paths EXCEPT ![t] = [@ EXCEPT !.held = @ + 1, !.pc = "getState"]]
    /\ last' = [NoLog EXCEPT !.op = "lockForRead", !.id = PathClip]
    /\ UNCHANGED <<cws, outstanding>>
    /\ PathUnchanged

\* The tests of getState() and the unlock() of the branch taken.
PathUnlock(t, currentFrame, needRepositioning) ==
    /\ paths[t].pc = "getState"
    /\ LET c == cws[PathClip]
           fn == paths[t].fn
       IN paths' = [paths EXCEPT ![t] =
                       [@ EXCEPT !.held = @ - StateLockUnlocks(fn, c.state),
                                 !.todo = StateLockCalls(fn, c, currentFrame,
                                                         KeyOf(m_clips, PathClip),
                                                         needRepositioning),
                                 !.pc = "calls"]]
    /\ last' = [NoLog EXCEPT !.op = "unlock", !.id = PathClip]
    /\ UNCHANGED <<cws, outstanding>>
    /\ PathUnchanged

\* The next ClipWorkflow method of the path. A method that writes the state
\* takes the state lock for writing; stop and setTime empty the computed queue
\* and getOutput reads it, under the render lock.
PathCall(t, ok) ==
    /\ paths[t].pc = "calls"
    /\ paths[t].todo # <<>>
    /\ LET c == cws[PathClip]
           call == Head(paths[t].todo)
           rest == Tail(paths[t].todo)
       IN \/ /\ call = "initialize"
             /\ StateLockReaders = {}
             /\ cws' = [cws EXCEPT ![PathClip] = CwInitialize(c)]
             /\ paths' = [paths EXCEPT ![t].todo = rest]
          \/ /\ call = "waitForCompleteInit"
             /\ StateLockReaders = {}
             /\ cws' = [cws EXCEPT ![PathClip] = CwWaitForCompleteInit(c, ok)]
             /\ paths' = [paths EXCEPT ![t].todo = IF ok THEN rest ELSE <<>>]
          \/ /\ call = "setTime"
             /\ c.renderLock = "free"
             /\ cws' = [cws EXCEPT ![PathClip] = CwSetTime(c)]
             /\ paths' = [paths EXCEPT ![t].todo = rest]
          \/ /\ call = "stop"
             /\ StateLockReaders = {}
             /\ c.renderLock = "free"
             /\ cws' = [cws EXCEPT ![PathClip] = CwStop(c)]
             /\ paths' = [paths EXCEPT ![t].todo = rest]
          \/ /\ call = "stopRenderer"
             /\ cws' = [cws EXCEPT ![PathClip] = CwStopRenderer(c)]
             /\ paths' = [paths EXCEPT ![t].todo = rest]
          \/ /\ call = "getOutput"
             /\ ~CwGetOutputBlocks(c)
             /\ cws' = [cws EXCEPT ![PathClip] =
                           [CwPreGetOutput(c) EXCEPT !.renderLock = "consumer"]]
             /\ paths' = [paths EXCEPT ![t] = [@ EXCEPT !.render = TRUE,
                                                        !.pc = "getOutput"]]
    /\ last' = [NoLog EXCEPT !.op = Head(paths[t].todo), !.id = PathClip]
    /\ UNCHANGED outstanding
    /\ PathUnchanged

\* VideoClipWorkflow::getOutput under the render lock, to the end of the
\* QMutexLocker's scope.
PathGetOutput(t, mode) ==
    /\ paths[t].pc = "getOutput"
    /\ mode = "Get" => NbGetTokens(outstanding) < MaxGets
    /\ LET r == ClipGetOutput(PathClip, [cws[PathClip] EXCEPT !.renderLock = "free"], mode)
       IN /\ cws' = [cws EXCEPT ![PathClip] = r.cw]
          /\ outstanding' = IF r.buff = NULL THEN outstanding
                            ELSE outstanding (+) SetToBag({r.buff})
          /\ last' = [NoLog EXCEPT !.op = "postGetOutput", !.id = PathClip,
                                    !.mode = mode, !.ret = r.buff]
    /\ paths' = [paths EXCEPT ![t] = [@ EXCEPT !.render = FALSE, !.pc = "calls",
                                               !.todo = Tail(@)]]
    /\ PathUnchanged

\* The path returns to its caller.
PathReturn(t) ==
    /\ paths[t].pc = "calls"
    /\ paths[t].todo = <<>>
    /\ paths' = [paths EXCEPT ![t] = [IdlePath EXCEPT !.held = paths[t].held]]
    /\ last' = [NoLog EXCEPT !.op = "return", !.id = PathClip]
    /\ UNCHANGED <<cws, outstanding>>
    /\ PathUnchanged

InitPaths ==
    /\ InitSched
    /\ m_clips[0] = PathClip
    /\ cws[PathClip].len = 1
    /\ cws[PathClip].begin = 0
    /\ m_renderOneFrame = FALSE
NextPaths ==
    \/ \E t \in Threads, fn \in StateLockPaths : PathEnter(t, fn)
    \/ \E t \in Threads : PathLockForRead(t)
    \/ \E t \in Threads, f \in Frames, nr \in BOOLEAN : PathUnlock(t, f, nr)
    \/ \E t \in Threads, ok \in BOOLEAN : PathCall(t, ok)
    \/ \E t \in Threads, mode \in {"Pop", "Get"} : PathGetOutput(t, mode)
    \/ \E t \in Threads : PathReturn(t)
    \/ \E to \in States :
          StateLockReaders = {} /\ CwStateChange(PathClip, to) /\ Alone
    \/ \E sb \in BagToSet(outstanding) : ConsumerRelease(sb) /\ Alone
SpecPaths == InitPaths /\ [][NextPaths]_vars

\* ------------------------------------------------------------------ properties
Range(q) == {q[i] : i \in 1..Len(q)}
MaxOf(S) == CHOOSE x \in S : \A y \in S : y <= x
ClipEnds == {k + cws[m_clips[k]].len : k \in Keys(m_clips)}

\* C1: after every addClip, removeClip, removeClipWorkflow, moveClip or clear
\* the track length is the maximum of start + length over the clips on the
\* track, and 0 when the track is empty.
C1_LengthIsMaxEnd ==
    m_length = IF Keys(m_clips) = {} THEN 0 ELSE MaxOf(ClipEnds)

PopTokens(bag) == {sb \in BagToSet(bag) : sb.pool}
NbPopTokens(bag) == BagCardinality(bag) - NbGetTokens(bag)
QueuedBuffers(c) == Len(c.avail) + Len(c.comp)

\* C2 as stated: available.size + computed.size + the number of StackedBuffers
\* handed out and not yet released, of either mode, is nbBuffers.
C2_ConservationAllStacked ==
    QueuedBuffers(cws[PoolClip]) + BagCardinality(outstanding) = NbBuffers

\* C2, amended: available.size + computed.size + the number of Pop-mode
\* StackedBuffers handed out and not yet released is nbBuffers, under any
\* interleaving of the callbacks, getOutput( Pop | Get ) and releases.
C2_Conservation ==
    QueuedBuffers(cws[PoolClip]) + NbPopTokens(outstanding) = NbBuffers

\* C2 witness: a Get-mode buffer was handed out while a Pop-mode one is still held.
C2_Witness ==
    /\ last.op = "getOutput" /\ last.mode = "Get" /\ last.ret # NULL
    /\ PopTokens(outstanding) # {}

\* C8: a Pop-mode getOutput that returns a buffer shrinks computed by exactly
\* one; computed grows only in the decoder's lock callback; releasing a
\* Pop-mode StackedBuffer appends its buffer to available and leaves computed.
C8_PopShrinksComputed ==
    [][LET c == cws[PoolClip]
           d == cws'[PoolClip]
       IN /\ (last'.op = "getOutput" /\ last'.mode = "Pop" /\ last'.ret # NULL)
                => (Len(d.comp) = Len(c.comp) - 1 /\ d.avail = c.avail)
          /\ Len(d.comp) > Len(c.comp)
                => (last'.op = "lock" /\ Len(d.comp) = Len(c.comp) + 1)
          /\ (last'.op = "release" /\ last'.ret.pool)
                => (d.avail = Append(c.avail, last'.ret.buf) /\ d.comp = c.comp)
      ]_vars

\* C8 witness: a popped buffer was released while computed still held a buffer.
C8_Witness ==
    last.op = "release" /\ last.ret.pool /\ cws[PoolClip].comp # <<>>

\* The clips a track getOutput call rendered, and those that gave a buffer.
Rendered(l) == {i \in 1..Len(l.renders) : l.renders[i].branch = "render"}
Fetched(l) == {i \in Rendered(l) : "getOutput" \in Range(l.renders[i].calls)}
FirstOf(S) == CHOOSE x \in S : \A y \in S : x <= y
Running == {"Rendering", "Paused", "PauseRequired", "UnpauseRequired"}

\* C3: when the requested frame lies in the closed interval of two or more
\* clips, the buffer returned, and the one the track retains, is the output of
\* the matching clip with the lowest start frame.
C3_FirstMatchWins ==
    (last.op = "getOutput" /\ Cardinality(Rendered(last)) >= 2)
        => /\ last.ret = last.renders[FirstOf(Rendered(last))].buff
           /\ m_videoStackedBuffer = last.renders[FirstOf(Rendered(last))].buff

\* C4: on a track whose clips occupy pairwise disjoint half-open intervals
\* [start, start+length), back-to-back clips included, a getOutput call
\* invokes renderClip on at most one clip.
HalfOpenDisjoint ==
    \A a, b \in Keys(m_clips) : a < b => a + cws[m_clips[a]].len <= b
C4_AtMostOneActive ==
    (last.op = "getOutput" /\ HalfOpenDisjoint) => Cardinality(Rendered(last)) <= 1

\* C7: every StackedBuffer a clip hands out during a track getOutput call is
\* released exactly once, before the next track getOutput asks a clip for
\* output: the only StackedBuffer not yet released is the one the track retains.
C7_ReleasedExactlyOnce ==
    outstanding = IF m_videoStackedBuffer = NULL THEN EmptyBag
                  ELSE SetToBag({m_videoStackedBuffer})

\* C5: with a single clip at start s of length L and a decoder that keeps
\* producing, sequential unpaused getOutput calls for s .. s+L-1 each return a
\* non-null Pop-mode buffer, and the call for frame s+L returns null and
\* signals track-end.
C5_PlaysThenEnds ==
    [][LET s == KeyOf(m_clips, SchedClip)
           L == cws[SchedClip].len
           f == last'.frame
           follows == /\ last.op = "getOutput" /\ ~last.paused
                      /\ last.frame = f - 1 /\ last.ret # NULL
       IN (/\ last'.op = "getOutput" /\ ~last'.paused
           /\ cws[SchedClip].state \in Running \cup {"Stopped"}
           /\ cws'[SchedClip].state # "Error")
          => /\ (f = s \/ (f \in (s + 1)..(s + L - 1) /\ follows))
                  => (last'.ret # NULL /\ last'.ret.pool)
             /\ (f = s + L /\ follows)
                  => (last'.ret = NULL /\ last'.trackEnd)
      ]_vars

\* The seek target of the resync: the trim begin in ms plus the offset of the
\* requested frame from the clip's start, in ms.
ResyncTargetMs(currentFrame, start, c) ==
    ((c.begin * 1000) \div Fps) + (((currentFrame - start) * 1000) \div Fps)
MovedRender(l) == {i \in Fetched(l) : l.renders[i].id \in l.moved}
StartOf(id) == KeyOf(m_clips, id)

\* C6 as stated: after moveClip, the next getOutput whose frame is inside the
\* clip's interval issues exactly one setTime before fetching the clip's
\* output, whatever the clip's state, to trimBeginMs + (currentFrame - newStart)
\* * frameDurationMs.
C6_OneSeekAnyState ==
    last.op = "getOutput" =>
        \A i \in MovedRender(last) :
            LET r == last.renders[i]
            IN r.seeks = <<ResyncTargetMs(last.frame, StartOf(r.id), cws[r.id])>>

\* C6, amended: after moveClip, the next getOutput whose frame is inside the
\* clip's interval and that fetches the clip's output issues, before the fetch,
\* exactly one setTime to that target when the clip is running (Rendering,
\* Paused or a pause transition); when the clip is Stopped it starts the clip
\* and issues that one setTime only if the clip's new start is more than one
\* frame from the requested frame or its trim begin is not 0, and none otherwise.
C6_OneSeekAfterMove ==
    last.op = "getOutput" =>
        \A i \in MovedRender(last) :
            LET r == last.renders[i]
                start == StartOf(r.id)
                target == ResyncTargetMs(last.frame, start, cws[r.id])
                started == r.calls[1] = "initialize"
                seeks == IF started /\ Abs(start - last.frame) <= 1
                                    /\ cws[r.id].begin = 0
                         THEN <<>> ELSE <<target>>
            IN /\ r.seeks = seeks
               /\ r.calls = (IF started THEN <<"initialize">> ELSE <<>>)
                            \o (IF seeks = <<>> THEN <<>> ELSE <<"setTime">>)
                            \o <<"getOutput">>

\* C6 witness: a clip moved while Stopped was started and fetched without a seek.
C6_Witness ==
    /\ last.op = "getOutput"
    /\ \E i \in MovedRender(last) :
          last.renders[i].calls = <<"initialize", "getOutput">>
    /\ \E i \in Rendered(last) : last.renders[i].buff # NULL

\* A paused getOutput call for the sub-frame of the previous call, with no
\* renderOneFrame pending, on a running clip that holds a computed buffer.
PausedRepeat ==
    /\ last'.op = "getOutput" /\ last'.paused /\ ~last'.oneFrame
    /\ last'.subFrame = m_lastFrame
    /\ Rendered(last') # {}
    /\ cws[SchedClip].state \in Running
    /\ ~cws[SchedClip].resync
    /\ cws[SchedClip].comp # <<>>

C10_OneShot ==
    last.op = "getOutput" =>
        /\ m_renderOneFrame = FALSE
        /\ last.paused =>
              \A i \in Fetched(last) :
                  last.renders[i].mode = IF last.asked THEN "Pop" ELSE "Get"

\* The entries of a record that are stopClipWorkflow calls (stop, and the
\* stop branch of the scan).
StopEntries(l) == {i \in 1..Len(l.renders) : l.renders[i].branch = "stop"}
Idle == {"Stopped", "Muted", "Error"}

\* C11: stopClipWorkflow on a clip that is Stopped, Muted or Error leaves its
\* state unchanged and does not call the clip's stop(); applying
\* stopClipWorkflow again to what it left changes nothing more.
C11_StopIdempotent ==
    [][last'.op \in {"stop", "getOutput"} =>
          \A i \in StopEntries(last') :
              LET id == last'.renders[i].id
              IN /\ cws[id].state \in Idle
                    => /\ cws'[id].state = cws[id].state
                       /\ last'.renders[i].calls = <<>>
                 /\ StopClipWorkflow(cws'[id]) = cws'[id]
                 /\ StopClipWorkflowCalls(cws'[id]) = <<>>
      ]_vars

\* C11 witness: stop() went over a Muted clip and called nothing on it.
C11_Witness ==
    /\ last.op = "stop"
    /\ \E i \in StopEntries(last) :
          /\ cws[last.renders[i].id].state = "Muted"
          /\ last.renders[i].calls = <<>>

LastClip == cws[m_clips[LastKey(m_clips)]]

\* C12: a getOutput call signals the end of the track exactly when the track is
\* empty, or the clip with the greatest start frame is in the Error state, or
\* that clip's start + length is strictly less than currentFrame.
C12_TrackEndExactly ==
    [][last'.op = "getOutput" =>
          (last'.trackEnd <=>
              \/ Keys(m_clips) = {}
              \/ LastClip.state = "Error"
              \/ LastKey(m_clips) + LastClip.len < last'.frame)
      ]_vars
\* The last clip is in Error while the frame asked for is inside it, and the
\* call signals the end of the track.
C12_Witness ==
    /\ last.op = "getOutput"
    /\ last.trackEnd
    /\ Keys(m_clips) # {}
    /\ LastKey(m_clips) + LastClip.len >= last.frame

Writing == {t \in Threads : callers[t] = "writing"}
Reading == {t \in Threads : callers[t] \in {"scanning", "stopping", "reading"}}

\* C13: while addClip, removeClip, removeClipWorkflow, moveClip or clear is
\* inside its critical section, no getOutput scan, getLength, getClip,
\* getClipPosition, contains, stop, setFullSpeedRender or stopFrameComputing
\* call is reading the clip mapping or the track length.
C13_MutationExcludesReads == Writing # {} => Reading = {}

\* C14: every clip workflow the track destroys has been through
\* stopClipWorkflow first: when removeClip or clear deletes it, its state is
\* Stopped, Muted or Error.
C14_DeletedAfterStop ==
    last.op \in {"removeClip", "clear"} =>
        \A i \in 1..Len(last.deleted) : last.deleted[i] \in Idle

ByUuid == {"moveClip", "removeClip", "removeClipWorkflow", "muteClip", "unmuteClip"}

\* C15: moveClip, removeClip, removeClipWorkflow, muteClip and unmuteClip given
\* an id that no clip of the track has change nothing: the mapping, every
\* clip workflow (state and resync flag included) and the track length are as
\* before, no track end is signalled, and the call takes its not-found return
\* (NULL for the two remove operations).
C15_UnknownIdNoOp ==
    [][(last'.op \in ByUuid /\ last'.id \notin OnTrack(m_clips)) =>
          /\ m_clips' = m_clips
          /\ cws' = cws
          /\ m_length' = m_length
          /\ ~last'.trackEnd
          /\ last'.mode = "missing"
      ]_vars
\* muteClip was given an id that is not on a track whose clip is running.
C15_Witness ==
    /\ last.op = "muteClip"
    /\ last.id \notin OnTrack(m_clips)
    /\ \E id \in OnTrack(m_clips) : cws[id].state = "Rendering"

\* C16: muteClip changes neither the mapping nor the track length and leaves
\* the clip Muted; a getOutput at a frame inside a muted clip's interval gets
\* NULL for that clip and calls neither initialize, setTime, getOutput nor stop
\* on it; and a muted clip that stays on the track stays Muted until unmuteClip
\* is called for it.
C16_MutedClipIsSkipped ==
    [][/\ last'.op = "muteClip" =>
            /\ m_clips' = m_clips
            /\ m_length' = m_length
            /\ last'.id \in OnTrack(m_clips) => cws'[last'.id].state = "Muted"
       /\ last'.op = "getOutput" =>
            \A i \in Rendered(last') :
                cws[last'.renders[i].id].state = "Muted" =>
                    /\ last'.renders[i].buff = NULL
                    /\ last'.renders[i].calls = <<>>
                    /\ last'.renders[i].seeks = <<>>
       /\ \A id \in ClipIds :
            (cws[id].state = "Muted" /\ cws'[id].state \notin {"Muted", "None"}) =>
                (last'.op = "unmuteClip" /\ last'.id = id)
      ]_vars
\* The frame asked for was inside a muted clip that had been rendering before.
C16_Witness ==
    /\ last.op = "getOutput"
    /\ \E i \in Rendered(last) :
          /\ cws[last.renders[i].id].state = "Muted"
          /\ cws[last.renders[i].id].avail # NewClipWorkflow(1, 0).avail

\* C17: under any interleaving of the decoder's lock/unlock callbacks with the
\* consumer's getOutput calls, the lock callback puts the buffer it fills at the
\* back of the computed queue, a Pop returns the buffer at the front and takes
\* it off, and nothing else changes the queue: the k-th buffer Pop returns is
\* the k-th buffer filled, none skipped, none delivered twice.
C17_PopIsFifo ==
    [][LET c == cws[PoolClip]
           d == cws'[PoolClip]
       IN IF last'.op = "lock"
          THEN d.comp = Append(c.comp, Head(c.avail))
          ELSE IF last'.op = "getOutput" /\ last'.mode = "Pop" /\ last'.ret # NULL
          THEN last'.ret.buf = Head(c.comp) /\ d.comp = Tail(c.comp)
          ELSE d.comp = c.comp
      ]_vars
\* Pop returned the older of two computed buffers.
C17_Witness ==
    /\ last.op = "getOutput" /\ last.mode = "Pop" /\ last.ret # NULL
    /\ cws[PoolClip].comp # <<>>

\* The clips a getOutput call rendered whose initialization failed: Stopped
\* before the call, in Error after it.
FailedInit(l) ==
    {i \in Rendered(l) : /\ cws[l.renders[i].id].state = "Stopped"
                         /\ cws'[l.renders[i].id].state = "Error"}
\* What the scan owes the clip at the i-th start frame when it is not rendered.
Decided(e, start, c, d, frame) ==
    /\ e.id = m_clips[start]
    /\ IF IsActive(start, c.len, frame) THEN e.branch = "render"
       ELSE IF IsPreload(start, frame)
       THEN /\ e.branch = "preload"
            /\ c.state = "Stopped" => (e.calls = <<"initialize">> /\ d.state = "Initializing")
       ELSE /\ e.branch = "stop"
            /\ c.state \notin Idle => (e.calls = <<"stop">> /\ d.state = "Stopped")

Addable(clips, ws) == {id \in ClipIds : ws[id] # NoClip /\ id \notin OnTrack(clips)}
\* The addClip just performed and addClip(id, start), applied in the other order
\* to the track as it was, give the same mapping and the same track length.
Commutes(id, start) ==
    LET here == AddClipMap(m_clips', start, id)
        there == AddClipMap(AddClipMap(m_clips, start, id), last'.frame, last'.id)
    IN /\ here = there
       /\ ComputeLength(here, cws') = ComputeLength(there, cws')

Jump(l) == Abs(l.subFrame - m_lastFrame)

\* C20 as stated: needRepositioning is true exactly when the call is paused
\* and subFrame differs from the recorded last frame, or subFrame is more than
\* one frame away from it; an unpaused advance of one frame never repositions;
\* every call records subFrame as the last frame.
C20_Repositioning ==
    [][last'.op = "getOutput" =>
          /\ last'.needRepositioning <=>
                ((last'.paused /\ last'.subFrame # m_lastFrame) \/ Jump(last') > 1)
          /\ (~last'.paused /\ last'.subFrame = m_lastFrame + 1)
                => ~last'.needRepositioning
          /\ m_lastFrame' = last'.subFrame
      ]_vars

\* C20: needRepositioning is true exactly when the call is paused, consumes no
\* renderOneFrame request and subFrame differs from the recorded last frame, or
\* subFrame is more than one frame away from it; an unpaused advance of one
\* frame never repositions; every call records subFrame as the last frame.
C20_RepositioningUnlessOneFrame ==
    [][last'.op = "getOutput" =>
          /\ last'.needRepositioning <=>
                \/ last'.paused /\ ~last'.oneFrame /\ last'.subFrame # m_lastFrame
                \/ Jump(last') > 1
          /\ (~last'.paused /\ last'.subFrame = m_lastFrame + 1)
                => ~last'.needRepositioning
          /\ m_lastFrame' = last'.subFrame
      ]_vars
\* A paused call that consumed a renderOneFrame request stepped without
\* repositioning, and recorded the frame it was asked for.
C20_Witness ==
    /\ last.op = "getOutput"
    /\ last.paused /\ last.oneFrame /\ last.asked
    /\ ~last.needRepositioning
    /\ last.subFrame > 0
    /\ last.ret # NULL
    /\ m_lastFrame = last.subFrame

\* A paused getOutput call that consumes a renderOneFrame request.
FrameStep == last'.op = "getOutput" /\ last'.paused /\ last'.asked /\ last'.oneFrame

\* C21 as stated: a getOutput call that consumes a pending renderOneFrame
\* request has needRepositioning false, so the active clip is not sought and
\* its computed buffers are not flushed before the single Pop.
C21_StepNeverSeeks ==
    [][FrameStep =>
          /\ ~last'.needRepositioning
          /\ \A i \in Rendered(last') :
                /\ last'.renders[i].seeks = <<>>
                /\ last'.renders[i].buff # NULL => last'.renders[i].mode = "Pop"
      ]_vars

\* C21: a getOutput call that consumes a pending renderOneFrame request, for a
\* subFrame at most one frame from the recorded last frame, has
\* needRepositioning false, so an active clip that is running with no resync
\* pending is not sought: the single Pop returns the oldest computed buffer
\* when there is one.
C21_StepInPlaceNeverSeeks ==
    [][(FrameStep /\ Jump(last') <= 1) =>
          /\ ~last'.needRepositioning
          /\ \A i \in Rendered(last') :
                LET e == last'.renders[i]
                    c == cws[e.id]
                IN (c.state \in Running /\ ~c.resync) =>
                      /\ e.seeks = <<>>
                      /\ e.calls = <<"getOutput">>
                      /\ e.mode = "Pop"
                      /\ c.comp # <<>> =>
                            (e.buff.buf = Head(c.comp) /\ cws'[e.id].comp = Tail(c.comp))
      ]_vars
\* A frame step of one frame popped a buffer from a paused clip without a seek.
C21_Witness ==
    /\ last.op = "getOutput" /\ last.paused /\ last.asked /\ last.oneFrame
    /\ ~last.needRepositioning
    /\ last.subFrame > 0
    /\ \E i \in Rendered(last) :
          /\ last.renders[i].calls = <<"getOutput">>
          /\ last.renders[i].buff # NULL
          /\ cws[last.renders[i].id].state = "Paused"

\* The start frames whose clip a getOutput at frame f neither renders nor
\* preloads.
OutOfReach(f) ==
    {k \in Keys(m_clips) :
        /\ ~(k <= f /\ f <= k + cws[m_clips[k]].len)
        /\ ~(f < k /\ k < f + NbFrameBeforePreload)}

\* C22: when a getOutput call for frame f has returned, whether or not it
\* signalled the end of the track, every clip whose closed interval
\* [start, start + length] does not contain f and whose start is not strictly
\* between f and f + nbFrameBeforePreload is Stopped, Muted or Error.
C22_OutOfReachIsStopped ==
    last.op = "getOutput" =>
        \A k \in OutOfReach(last.frame) : cws[m_clips[k]].state \in Idle
\* The call signalled the end of the track and stopped a running clip that
\* the frame had left behind.
C22_Witness ==
    /\ last.op = "getOutput"
    /\ last.trackEnd
    /\ OutOfReach(last.frame) # {}
    /\ \E i \in StopEntries(last) : last.renders[i].calls = <<"stop">>

PreloadEntries(l) == {i \in 1..Len(l.renders) : l.renders[i].branch = "preload"}
\* The clip of a scan entry is on the track at a start frame inside the
\* preload window of frame f.
InWindow(e, f) ==
    \E k \in Keys(m_clips) :
        m_clips[k] = e.id /\ f < k /\ k < f + NbFrameBeforePreload

\* C23: a getOutput call for frame f takes the preload branch for exactly the
\* clips with f < start < f + nbFrameBeforePreload; it calls initialize on such
\* a clip if and only if the clip is Stopped, and a clip in any other state is
\* left as it was: no initialize, no stop, no setTime, no getOutput.
C23_PreloadOnlyStopped ==
    [][last'.op = "getOutput" =>
          \A i \in 1..Len(last'.renders) :
              LET e == last'.renders[i]
                  c == cws[e.id]
                  d == cws'[e.id]
              IN /\ InWindow(e, last'.frame) <=> e.branch = "preload"
                 /\ e.branch = "preload" =>
                       /\ e.buff = NULL /\ e.seeks = <<>>
                       /\ IF c.state = "Stopped"
                          THEN e.calls = <<"initialize">> /\ d.state = "Initializing"
                          ELSE e.calls = <<>> /\ d.state = c.state /\ d.comp = c.comp
      ]_vars
\* A clip in the preload window that was already running was left running.
C23_Witness ==
    /\ last.op = "getOutput"
    /\ \E i \in PreloadEntries(last) :
          /\ last.renders[i].calls = <<>>
          /\ cws[last.renders[i].id].state = "Rendering"

\* The decoder is inside the lock callback, at the pop of an empty available queue.
Exhausted(c) == c.dec = "locked" /\ c.avail = <<>>
\* Every buffer of the pool is in exactly one place: the available queue, the
\* computed queue, or a StackedBuffer that gives it back on release.
EachBufferOnce(c, bag) ==
    LET q == c.avail \o c.comp
        held == {sb.buf : sb \in PopTokens(bag)}
    IN /\ \A i, j \in 1..Len(q) : q[i] = q[j] => i = j
       /\ \A sb \in PopTokens(bag) : CopiesIn(sb, bag) = 1
       /\ Range(q) \cap held = {}
       /\ Range(q) \cup held = 1..NbBuffers

\* C24: the lock callback takes a buffer only from a non-empty available queue
\* and moves exactly that buffer to the back of the computed queue; while the
\* available queue is empty the callback stays where it is and both queues are
\* left alone until a release gives a buffer back; every buffer of the pool
\* stays in exactly one place.
C24_LockWaitsForBuffer ==
    [][LET c == cws[PoolClip]
           d == cws'[PoolClip]
       IN /\ last'.op = "lock" =>
                /\ c.avail # <<>>
                /\ d.avail = Tail(c.avail)
                /\ d.comp = Append(c.comp, Head(c.avail))
          /\ Exhausted(c) =>
                /\ d.dec = "locked"
                /\ d.comp = c.comp
                /\ d.avail # c.avail =>
                      /\ last'.op = "release"
                      /\ d.avail = <<last'.ret.buf>>
          /\ EachBufferOnce(d, outstanding')
      ]_vars
\* The callback waits on an empty pool, every buffer being computed or handed out.
C24_Witness ==
    /\ Exhausted(cws[PoolClip])
    /\ cws[PoolClip].comp # <<>>
    /\ PopTokens(outstanding) # {}

\* C25 as stated: the decoder does not hold the render lock while it waits for
\* an available buffer nor while it fills one between the two callbacks, and
\* it is never blocked holding the lock while the consumer waits to take it.
C25_RenderLockNotHeldWhileWaiting ==
    LET c == cws[PoolClip]
    IN /\ Exhausted(c) => c.renderLock # "decoder"
       /\ c.dec = "filling" => c.renderLock # "decoder"
       /\ ~(Exhausted(c) /\ c.renderLock = "decoder" /\ consumer.pc = "renderLock")

\* C26: a thread never holds the state lock and the render lock of the clip
\* at once: each path of the track that takes the state read lock holds it
\* once, has given it back when it calls a method of the clip workflow, and
\* holds none when it has returned.
C26_OneLockAtATime ==
    \A t \in Threads :
        LET p == paths[t]
        IN /\ ~(p.held > 0 /\ p.render)
           /\ p.held \in {0, 1}
           /\ p.pc \in {"idle", "lockForRead", "calls", "getOutput"} => p.held = 0
\* One thread is inside getOutput, under the render lock, on behalf of
\* renderClip, while another holds the state lock of the same clip.
C26_Witness ==
    \E t, u \in Threads :
        /\ paths[t].fn = "renderClip" /\ paths[t].render
        /\ paths[u].held = 1 /\ paths[u].pc = "getState"

\* The buffer the decoder is filling: the lock callback pushed it at the back
\* of the computed queue, which no one else changes while the decoder holds
\* the render lock.
BeingFilled(c) == c.comp[Len(c.comp)]
TrackOps == {"getOutput", "preload", "stop", "stopFrameComputing"}
\* C28: a getOutput, preload, stop or stopFrameComputing call of the track makes
\* no call on a clip that is in Error: the clip stays in Error and contributes
\* no buffer at a frame inside its interval, while the scan of getOutput still
\* reaches every clip of the track and renders, preloads or stops the others as
\* their start frames decide.
C28_ErrorIsTerminal ==
    [][last'.op \in TrackOps =>
          \A k \in Keys(m_clips) :
              LET id == m_clips[k]
              IN cws[id].state = "Error" =>
                    /\ cws'[id].state = "Error"
                    /\ \A i \in 1..Len(last'.renders) :
                          last'.renders[i].id = id =>
                             /\ last'.renders[i].calls = <<>>
                             /\ last'.renders[i].seeks = <<>>
                             /\ last'.renders[i].buff = NULL
                    /\ last'.op = "getOutput" =>
                          /\ Len(last'.renders) = Cardinality(Keys(m_clips))
                          /\ \A j \in 1..Len(last'.renders) :
                                LET start == KeySeq(Keys(m_clips))[j]
                                    e == last'.renders[j]
                                IN /\ Decided(e, start, cws[m_clips[start]],
                                              cws'[m_clips[start]], last'.frame)
                                   /\ (e.branch = "render"
                                       /\ cws[e.id].state = "Stopped") =>
                                         Head(e.calls) = "initialize"
      ]_vars
\* A getOutput call at a frame inside the interval of a clip in Error left that
\* clip alone and fetched a buffer from another clip.
C28_Witness ==
    /\ last.op = "getOutput"
    /\ \E i, j \in Rendered(last) :
          /\ cws[last.renders[i].id].state = "Error"
          /\ last.renders[i].calls = <<>>
          /\ last.renders[j].buff # NULL

\* C29 as stated: when a getOutput call signals track-end, no clip that has
\* the frame inside its interval and is Stopped, Rendering, Paused or in a
\* pause transition gives a buffer to renderClip in that call.
C29_TrackEndMeansNoOutput ==
    [][(last'.op = "getOutput" /\ last'.trackEnd) =>
          \A i \in Rendered(last') :
              cws[last'.renders[i].id].state \in Running \cup {"Stopped"} =>
                  last'.renders[i].buff = NULL
      ]_vars

\* C30 as stated: after addClip the track holds the added clip and every clip
\* it held before, one clip more than before; after a moveClip that finds its
\* clip the track holds the same clips as before and every other clip is at
\* the start frame it was at.
C30_NoClipDropped ==
    [][/\ last'.op = "addClip" =>
             /\ OnTrack(m_clips') = OnTrack(m_clips) \cup {last'.id}
             /\ Cardinality(Keys(m_clips')) = Cardinality(Keys(m_clips)) + 1
       /\ (last'.op = "moveClip" /\ last'.mode = "found") =>
             /\ OnTrack(m_clips') = OnTrack(m_clips)
             /\ KeyOf(m_clips', last'.id) = last'.frame
             /\ \A id \in OnTrack(m_clips) \ {last'.id} :
                   KeyOf(m_clips', id) = KeyOf(m_clips, id)
      ]_vars

\* C31 as stated: stopFrameComputing calls stopRenderer exactly once on every
\* clip of the track that is not Stopped, Muted or Error, whatever the states
\* of the clips placed before it.
C31_EveryRendererStopped ==
    [][last'.op = "stopFrameComputing" =>
          \A k \in Keys(m_clips) :
              cws[m_clips[k]].state \notin Idle =>
                  Cardinality({i \in 1..Len(last'.renders) :
                                  /\ last'.renders[i].id = m_clips[k]
                                  /\ last'.renders[i].calls = <<"stopRenderer">>}) = 1
      ]_vars

\* The decoder is between a lock callback and its unlock callback.
Filling(c) == c.dec = "filling"
\* C32: no getOutput call, in Pop or in Get mode, returns the buffer that a
\* lock callback pushed onto the computed queue and whose unlock callback has
\* not run yet: getOutput hands out a buffer only while the decoder is outside
\* the two callbacks, and while the decoder fills a buffer that buffer is in no
\* StackedBuffer that gives it back to the pool.
C32_NoBufferBeingFilled ==
    [][LET c == cws[PoolClip]
           d == cws'[PoolClip]
       IN /\ (last'.op = "getOutput" /\ last'.ret # NULL) =>
                /\ ~Filling(c) /\ ~Filling(d)
                /\ c.renderLock = "free"
                /\ last'.ret.buf = Head(c.comp)
          /\ Filling(d) =>
                \A sb \in PopTokens(outstanding') : sb.buf # BeingFilled(d)
      ]_vars
\* The consumer has passed the pre-get hook on the strength of the one buffer
\* the decoder is still filling, and waits for the render lock.
C32_Witness ==
    /\ consumer.pc = "renderLock"
    /\ Filling(cws[PoolClip])
    /\ Len(cws[PoolClip].comp) = 1
====
